---- MODULE Spec2Model ----
(***************************************************************************)
(* A model of django-admin-filtrate (src/filtrate/filters.py): the base    *)
(* list filter FiltrateFilter, the DateRangeFilter and the TreeFilter.     *)
(*                                                                         *)
(* Representation                                                          *)
(*   - a Python str is a TLA+ string where it is only passed around        *)
(*     (titles, asset URLs) and a sequence of one-character strings where  *)
(*     the code looks inside it (query-string values, split on ",");       *)
(*   - a keyword / parameter name "a__b" is the sequence <<"a", "b">> of   *)
(*     its "__"-separated parts, so that name + "__gte" is Append;         *)
(*   - request.GET (a QueryDict) is the sequence of <<key, value>> pairs   *)
(*     of the query string, in order, repeated keys included;              *)
(*   - a QuerySet is the sequence of filter()/exclude() calls applied;     *)
(*   - an object of get_tree() is a record with a kind: a model instance   *)
(*     ("obj"), a str ("str") or a tuple ("tuple").                        *)
(***************************************************************************)
EXTENDS Integers, Sequences, FiniteSets, TLC

VARIABLES
    adminDeclared,  \* the Media the ModelAdmin class declares in its source
    adminMedia,     \* model_admin.Media as it is now (class attribute)
    settings,       \* filtrate.settings.FILTRATE
    phase,          \* "idle" | "request" | "filter" | "failed"
    GET,            \* request.GET of the request being served
    filter,         \* the filter instance constructed last
    tree,           \* what the filter's get_tree() returns
    out             \* the outcome of the operation executed last

vars == <<adminDeclared, adminMedia, settings, phase, GET, filter, tree, out>>

-----------------------------------------------------------------------------
(* Bounds                                                                  *)

MaxDepth == 2       \* nesting depth of the trees below the root's children
MaxParams == 2      \* number of key=value pairs in a query string

Pks == {1, 2}       \* primary keys of the model instances in trees

-----------------------------------------------------------------------------
(* Python values                                                           *)

SeqsUpTo(S, n) == UNION {[1..k -> S] : k \in 0..n}

Range(s) == {s[i] : i \in 1..Len(s)}

Last(s) == s[Len(s)]

RECURSIVE Concat(_)
Concat(ss) == IF ss = <<>> THEN <<>> ELSE Head(ss) \o Concat(Tail(ss))

\* outcomes: err = "" is a normal return of val, otherwise the exception raised
\* (arg: the argument the operation was called with, kept for reference)
Return(op, val) == [op |-> op, err |-> "", val |-> val, arg |-> <<>>]
Raise(op, exc) == [op |-> op, err |-> exc, val |-> <<>>, arg |-> <<>>]
WithArg(outcome, arg) == [outcome EXCEPT !.arg = arg]

\* a model instance: its pk and its __str__
Obj(pk) == [kind |-> "obj", pk |-> pk, s |-> IF pk = 1 THEN "Sales" ELSE "Support",
            items |-> <<>>]
Str(s) == [kind |-> "str", pk |-> 0, s |-> s, items |-> <<>>]
Tuple(items) == [kind |-> "tuple", pk |-> 0, s |-> "", items |-> items]

\* repr() of the values a tuple may hold, as str(tuple) prints them
RECURSIVE Repr(_)
ReprItems(items) ==
    LET F[i \in 0..Len(items)] ==
            IF i = 0 THEN ""
            ELSE F[i - 1] \o (IF i = 1 THEN "" ELSE ", ") \o Repr(items[i])
    IN F[Len(items)] \o (IF Len(items) = 1 THEN "," ELSE "")
Repr(node) ==
    IF node.kind = "obj" THEN "<Department: " \o node.s \o ">"
    ELSE IF node.kind = "str" THEN "'" \o node.s \o "'"
    ELSE "(" \o ReprItems(node.items) \o ")"

force_str(node) ==
    IF node.kind = "tuple" THEN Repr(node) ELSE node.s

-----------------------------------------------------------------------------
(* TreeFilter._tree_to_json                                                *)

\* the dict appended for a leaf node
LeafEntryNeverSelected(node, selected_nodes) ==
    [attr |-> [obj_id |-> node.pk, is_selected |-> FALSE],
     data |-> force_str(node)]

LeafEntry(node, selected_nodes) ==
    [attr |-> [obj_id |-> node.pk,
               is_selected |-> node.pk \in Range(selected_nodes)],
     data |-> force_str(node)]

\* the dict appended for a parent node, its children list filled in
ParentEntry(title, new_tree) == [data |-> title, children |-> new_tree]

\* cur_tree.append(entry)
ListInsertFront(cur_tree, entry) == <<entry>> \o cur_tree

ListAppend(cur_tree, entry) == Append(cur_tree, entry)

RECURSIVE parse_tree(_, _, _)
RECURSIVE parse_nodes(_, _, _, _)

\* the body of "for node in tree", from the i-th node on
parse_nodes(nodes, i, cur_tree, selected_nodes) ==
    IF i > Len(nodes) THEN Return("parse_tree", cur_tree)
    ELSE LET node == nodes[i] IN
         IF node.kind = "tuple" THEN
             IF Len(node.items) < 1 THEN Raise("parse_tree", "IndexError")
             ELSE IF Len(node.items) < 2 THEN Raise("parse_tree", "IndexError")
             ELSE LET sub == parse_tree(node.items[2], <<>>, selected_nodes) IN
                  IF sub.err # "" THEN sub
                  ELSE parse_nodes(nodes, i + 1,
                           ListAppend(cur_tree,
                               ParentEntry(force_str(node.items[1]), sub.val)),
                           selected_nodes)
         ELSE IF node.kind = "obj" THEN
             parse_nodes(nodes, i + 1,
                 ListAppend(cur_tree, LeafEntry(node, selected_nodes)),
                 selected_nodes)
         ELSE \* a str has no pk
             Raise("parse_tree", "AttributeError")

\* "for node in tree": a tuple yields its items, a str its characters (each a
\* str, which has no pk), a model instance is not iterable
parse_tree(t, cur_tree, selected_nodes) ==
    IF t.kind = "tuple" THEN parse_nodes(t.items, 1, cur_tree, selected_nodes)
    ELSE IF t.kind = "str" THEN
        IF t.s = "" THEN Return("parse_tree", cur_tree)
        ELSE Raise("parse_tree", "AttributeError")
    ELSE Raise("parse_tree", "TypeError")

(* json.dumps: the text as a sequence of tokens, punctuation ("p"), string   *)
(* ("s"), number ("n") and true/false ("b").                                 *)
P(s) == [t |-> "p", s |-> s, n |-> 0, b |-> FALSE]
S(s) == [t |-> "s", s |-> s, n |-> 0, b |-> FALSE]
N(n) == [t |-> "n", s |-> "", n |-> n, b |-> FALSE]
B(b) == [t |-> "b", s |-> "", n |-> 0, b |-> b]

RECURSIVE DumpsList(_)
DumpsEntry(e) ==
    IF "children" \in DOMAIN e
    THEN <<P("{"), S("data"), P(":"), S(e.data), P(","),
           S("children"), P(":")>> \o DumpsList(e.children) \o <<P("}")>>
    ELSE <<P("{"), S("attr"), P(":"),
             P("{"), S("obj_id"), P(":"), N(e.attr.obj_id), P(","),
                     S("is_selected"), P(":"), B(e.attr.is_selected), P("}"),
           P(","), S("data"), P(":"), S(e.data), P("}")>>
DumpsList(entries) ==
    LET F[i \in 0..Len(entries)] ==
            IF i = 0 THEN <<>>
            ELSE F[i - 1] \o (IF i = 1 THEN <<>> ELSE <<P(",")>>)
                          \o DumpsEntry(entries[i])
    IN <<P("[")>> \o F[Len(entries)] \o <<P("]")>>

json_dumps(json_tree) == DumpsList(json_tree)

_tree_to_json(t, selected_nodes) ==
    LET r == parse_tree(t, <<>>, selected_nodes) IN
    IF r.err # "" THEN Raise("_tree_to_json", r.err)
    ELSE Return("_tree_to_json", json_dumps(r.val))

(* json.loads, the client's reading of that text: a list is a sequence, an  *)
(* object a function from its keys.                                          *)
RECURSIVE LoadsValue(_, _)
RECURSIVE LoadsItems(_, _, _)
RECURSIVE LoadsMembers(_, _, _)
LoadsValue(toks, i) ==
    LET tk == toks[i] IN
    IF tk.t = "s" THEN [v |-> tk.s, i |-> i + 1]
    ELSE IF tk.t = "n" THEN [v |-> tk.n, i |-> i + 1]
    ELSE IF tk.t = "b" THEN [v |-> tk.b, i |-> i + 1]
    ELSE IF tk.s = "[" THEN LoadsItems(toks, i + 1, <<>>)
    ELSE LoadsMembers(toks, i + 1, <<>>)
LoadsItems(toks, i, acc) ==
    IF toks[i] = P("]") THEN [v |-> acc, i |-> i + 1]
    ELSE IF toks[i] = P(",") THEN LoadsItems(toks, i + 1, acc)
    ELSE LET r == LoadsValue(toks, i) IN LoadsItems(toks, r.i, Append(acc, r.v))
LoadsMembers(toks, i, acc) ==
    IF toks[i] = P("}") THEN [v |-> acc, i |-> i + 1]
    ELSE IF toks[i] = P(",") THEN LoadsMembers(toks, i + 1, acc)
    ELSE LET r == LoadsValue(toks, i + 2) IN
         LoadsMembers(toks, r.i, acc @@ (toks[i].s :> r.v))

json_loads(toks) == LoadsValue(toks, 1).v

-----------------------------------------------------------------------------
(* django.forms.Media, as FiltrateFilter._add_media uses it                 *)

\* an OrderedSet of the items of s: the first occurrence of each, in order
OrderedSet(s) ==
    LET F[i \in 0..Len(s)] ==
            IF i = 0 THEN <<>>
            ELSE IF s[i] \in Range(F[i - 1]) THEN F[i - 1]
            ELSE Append(F[i - 1], s[i])
    IN F[Len(s)]

\* Media.__add__ on the lists of one media type: the lists of self, then each
\* list of other that is not empty and not already one of self's
MediaAdd(self_lists, other_lists) ==
    self_lists \o SelectSeq(other_lists,
                     LAMBDA item : item # <<>> /\ item \notin Range(self_lists))

\* Media.merge: every item once, each after the item that precedes it in any
\* of the lists (a stable topological sort), or simply in order of first
\* occurrence when the lists contradict each other
RECURSIVE TopologicalSort(_, _, _, _)
TopologicalSort(nodes, deps, todo, done) ==
    IF todo = {} THEN [cyclic |-> FALSE, order |-> <<>>]
    ELSE LET current == {n \in todo : deps[n] \subseteq done} IN
         IF current = {} THEN [cyclic |-> TRUE, order |-> <<>>]
         ELSE LET rest == TopologicalSort(nodes, deps, todo \ current,
                                          done \cup current)
              IN [cyclic |-> rest.cyclic,
                  order |-> SelectSeq(nodes, LAMBDA n : n \in current)
                            \o rest.order]

MediaMerge(lists) ==
    LET given == SelectSeq(lists, LAMBDA l : l # <<>>)
        all_items == OrderedSet(Concat(given))
        deps == [item \in Range(all_items) |->
                    UNION {{g[k - 1] : k \in {j \in 2..Len(g) :
                                                g[j] = item /\ g[j - 1] # item}} :
                           g \in Range(given)}]
        sorted == TopologicalSort(all_items, deps, Range(all_items), {})
    IN IF sorted.cyclic THEN all_items ELSE sorted.order

\* the Media inner classes: js, and css for the one medium in use, 'all'
BaseMedia ==
    [js |-> <<"filtrate/js/filtrate.js">>, css |-> <<"filtrate/css/filtrate.css">>]

DateRangeMedia(FILTRATE) ==
    IF FILTRATE.include_jquery
    THEN [js |-> <<
            "//ajax.googleapis.com/ajax/libs/jqueryui/1.8.14/jquery-ui.min.js",
            "//ajax.googleapis.com/ajax/libs/jqueryui/1.8.14/i18n/jquery-ui-i18n.min.js",
            "filtrate/js/daterangefilter.js">>,
          css |-> <<
            "//ajax.googleapis.com/ajax/libs/jqueryui/1.8.14/themes/flick/jquery-ui.css">>]
    ELSE [js |-> <<"filtrate/js/daterangefilter.js">>, css |-> <<>>]

TreeMedia == [js |-> <<"filtrate/js/filtertree.js">>, css |-> <<>>]

\* getattr(self, 'Media'): the class's own inner Media, else the inherited one
OwnMedia(cls, FILTRATE) ==
    IF cls = "DateRangeFilter" THEN DateRangeMedia(FILTRATE)
    ELSE IF cls = "TreeFilter" THEN TreeMedia
    ELSE BaseMedia

\* the three Media objects added up, for one media type
MediaSum(admin_list, base_list, own_list) ==
    MediaMerge(MediaAdd(MediaAdd(<<admin_list>>, <<base_list>>), <<own_list>>))

\* what _add_media leaves in model_admin.Media
_add_media(model_admin_Media, cls, FILTRATE) ==
    [js |-> MediaSum(model_admin_Media.js, BaseMedia.js,
                     OwnMedia(cls, FILTRATE).js),
     css |-> MediaSum(model_admin_Media.css, BaseMedia.css,
                      OwnMedia(cls, FILTRATE).css)]

-----------------------------------------------------------------------------
(* Filter classes and instances                                            *)

INCLUDE == 1
EXCLUDE == 2

\* Python's None where a name is expected
None == <<>>

\* a subclass: the class it is (or merely extends), and its class attributes
FilterClass(cls, title, parameter_name, query_mode, query_name) ==
    [cls |-> cls, title |-> title, parameter_name |-> parameter_name,
     query_mode |-> query_mode, query_name |-> query_name]

FilterClasses ==
    {FilterClass("FiltrateFilter", "Efter afdeling", <<"q">>, INCLUDE, None),
     FilterClass("DateRangeFilter", "Created", <<"created">>, INCLUDE, None)}
    \cup {FilterClass("TreeFilter", "Department", <<"dept">>, INCLUDE, None),
          FilterClass("TreeFilter", "Department", <<"dept">>, EXCLUDE,
                      <<"dept_id", "in">>),
          FilterClass("TreeFilter", "Department", <<"dept">>, 3, <<"dept_id">>)}

NoFilter ==
    [cls |-> "", title |-> "", parameter_name |-> None, query_mode |-> INCLUDE,
     query_name |-> None, params |-> <<>>, used_parameters |-> <<>>,
     selected_nodes |-> <<>>]

\* QueryDict.keys(): each key once, in order of first appearance
Keys(querydict) ==
    OrderedSet([i \in 1..Len(querydict) |-> querydict[i][1]])

\* QueryDict[k] and QueryDict.get(k): the last value given for k
GetItem(querydict, k) ==
    querydict[CHOOSE i \in 1..Len(querydict) :
                /\ querydict[i][1] = k
                /\ \A j \in (i + 1)..Len(querydict) : querydict[j][1] # k][2]

\* the lookup parameters the change list hands to each filter: a dict of the
\* query string, one value per key
LookupParams(querydict) ==
    [k \in Range(Keys(querydict)) |-> GetItem(querydict, k)]

\* dict without key k (dict.pop)
Pop(dict, k) == [j \in DOMAIN dict \ {k} |-> dict[j]]

\* self.value(): used_parameters.get(parameter_name)
HasValue(self) == self.parameter_name \in DOMAIN self.used_parameters
Value(self) == self.used_parameters[self.parameter_name]

\* str.split(sep) on a sequence of characters
Split(chars, sep) ==
    LET F[i \in 0..Len(chars)] ==
            IF i = 0 THEN <<<<>>>>
            ELSE IF chars[i] = sep THEN Append(F[i - 1], <<>>)
            ELSE [F[i - 1] EXCEPT ![Len(F[i - 1])] = Append(@, chars[i])]
    IN F[Len(chars)]

Digits == <<"0", "1", "2", "3", "4", "5", "6", "7", "8", "9">>

\* int(piece): defined on one or more decimal digits, ValueError otherwise
IsInt(piece) == piece # <<>> /\ \A i \in 1..Len(piece) : piece[i] \in Range(Digits)
ToInt(piece) ==
    LET D(c) == (CHOOSE d \in 1..Len(Digits) : Digits[d] = c) - 1
        F[i \in 0..Len(piece)] == IF i = 0 THEN 0 ELSE F[i - 1] * 10 + D(piece[i])
    IN F[Len(piece)]

\* FiltrateFilter.__init__ after _add_media: the attributes set, and
\* SimpleListFilter.__init__ moving the filter's own parameter out of params
FiltrateInit(class, params) ==
    [cls |-> class.cls, title |-> class.title,
     parameter_name |-> class.parameter_name,
     query_mode |-> class.query_mode, query_name |-> class.query_name,
     params |-> IF class.parameter_name \in DOMAIN params
                THEN Pop(params, class.parameter_name) ELSE params,
     used_parameters |->
        IF class.parameter_name \in DOMAIN params
        THEN [k \in {class.parameter_name} |-> params[k]] ELSE <<>>,
     selected_nodes |-> <<>>]

\* TreeFilter.__init__ after the base __init__: [ok, self]
TreeInit(self) ==
    IF HasValue(self)
    THEN LET pieces == Split(Value(self), ",") IN
         IF \A i \in 1..Len(pieces) : IsInt(pieces[i])
         THEN [ok |-> TRUE,
               self |-> [self EXCEPT !.selected_nodes =
                            [i \in 1..Len(pieces) |-> ToInt(pieces[i])]]]
         ELSE [ok |-> FALSE, self |-> self]
    ELSE [ok |-> TRUE, self |-> [self EXCEPT !.selected_nodes = <<>>]]

-----------------------------------------------------------------------------
(* QuerySets                                                               *)

\* QuerySet.filter(**{key: value}) and QuerySet.exclude(**{key: value})
QsFilter(queryset, key, value) ==
    Append(queryset, [method |-> "filter", key |-> key, value |-> value])
QsExclude(queryset, key, value) ==
    Append(queryset, [method |-> "exclude", key |-> key, value |-> value])

\* FiltrateFilter.queryset
FiltrateQueryset(self, queryset) ==
    IF ~HasValue(self) THEN Return("queryset", queryset)
    ELSE Return("queryset", QsFilter(queryset, self.parameter_name, Value(self)))

\* the keyword TreeFilter.queryset filters on
QueryNameIgnoringOverride(self) == self.parameter_name

QueryName(self) ==
    IF self.query_name = None THEN self.parameter_name ELSE self.query_name

\* TreeFilter.queryset
TreeQuerysetModeFirst(self, queryset) ==
    IF self.query_mode \notin {INCLUDE, EXCLUDE}
    THEN Raise("queryset", "Exception: Unknown query_mode given.")
    ELSE IF self.selected_nodes = <<>> THEN Return("queryset", queryset)
    ELSE IF self.query_mode = INCLUDE
    THEN Return("queryset",
                QsFilter(queryset, QueryName(self), self.selected_nodes))
    ELSE Return("queryset",
                QsExclude(queryset, QueryName(self), self.selected_nodes))

TreeQueryset(self, queryset) ==
    IF self.selected_nodes = <<>> THEN Return("queryset", queryset)
    ELSE IF self.query_mode = INCLUDE
    THEN Return("queryset",
                QsFilter(queryset, QueryName(self), self.selected_nodes))
    ELSE IF self.query_mode = EXCLUDE
    THEN Return("queryset",
                QsExclude(queryset, QueryName(self), self.selected_nodes))
    ELSE Raise("queryset", "Exception: Unknown query_mode given.")

\* self.queryset(request, queryset), by the class of self
queryset(self, qs) ==
    IF self.cls = "TreeFilter" THEN TreeQueryset(self, qs)
    ELSE FiltrateQueryset(self, qs)

-----------------------------------------------------------------------------
(* Content                                                                 *)

\* one '<input type="hidden" name="%s" value="%s"/>'
HiddenInput(k, v) == [name |-> k, value |-> v]

\* FiltrateFilter._form_duplicate_getparams: the hidden inputs joined
_form_duplicate_getparams(request_GET, omitted_fields) ==
    LET _omitted_fields == omitted_fields \o <<<<"e">>>>
        _keys == Keys(request_GET)
        kept == SelectSeq(_keys, LAMBDA k : k \notin Range(_omitted_fields))
    IN [i \in 1..Len(kept) |-> HiddenInput(kept[i], GetItem(request_GET, kept[i]))]

\* DateRangeFilter._get_form: the form's field names in order, and its data
_get_form(self, request_GET) ==
    LET from_name == Append(self.parameter_name, "gte")
        to_name == Append(self.parameter_name, "lte")
        add_fields(name) == <<Append(name, "alt"), name>>
        add_data(data, name) ==
            IF name \in Range(Keys(request_GET)) /\ GetItem(request_GET, name) # <<>>
            THEN (Append(name, "alt") :> GetItem(request_GET, name)) @@ data
            ELSE data
    IN [fields |-> add_fields(from_name) \o add_fields(to_name),
        data |-> add_data(add_data(<<>>, from_name), to_name)]

\* get_content(request), by the class of self: the parts of the HTML
get_content(self, request_GET, t, FILTRATE) ==
    IF self.cls = "DateRangeFilter"
    THEN LET form == _get_form(self, request_GET) IN
         Return("get_content",
             [form |-> form,
              datepicker_region |-> FILTRATE.datepicker_region,
              datepicker_date_format |-> FILTRATE.datepicker_date_format,
              get_params |-> _form_duplicate_getparams(request_GET, form.fields)])
    ELSE IF self.cls = "TreeFilter"
    THEN LET json == _tree_to_json(t, self.selected_nodes) IN
         IF json.err # "" THEN Raise("get_content", json.err)
         ELSE Return("get_content",
                  [textarea |-> json.val,
                   name |-> self.parameter_name,
                   get_params |-> _form_duplicate_getparams(
                                      request_GET, <<self.parameter_name>>)])
    ELSE Raise("get_content", "NotImplementedError")

\* FiltrateFilter.get_title(self, request), called with the arguments args:
\* Python raises TypeError unless exactly the one it requires is passed
get_title(self, args) ==
    IF Len(args) # 1 THEN Raise("get_title", "TypeError")
    ELSE Return("get_title", self.title)

\* FiltrateFilter.choices: the dict's 'title' is self.get_title(), evaluated
\* first, its 'content' self.get_content(self.request)
choices(self, request_GET, t, FILTRATE) ==
    LET title == get_title(self, <<>>)
        content == get_content(self, request_GET, t, FILTRATE)
    IN IF title.err # "" THEN Raise("choices", title.err)
       ELSE IF content.err # "" THEN Raise("choices", content.err)
       ELSE Return("choices", <<[title |-> title.val, content |-> content.val]>>)

-----------------------------------------------------------------------------
(* Inputs                                                                  *)

\* the Media a ModelAdmin declares (one that declares a Media class)
AdminMediaChoices ==
    {[js |-> <<"admin/extra.js">>, css |-> <<"admin/extra.css">>]}

SettingsChoices ==
    {[datepicker_region |-> "en-GB", datepicker_date_format |-> "yy-mm-dd",
      include_jquery |-> b] : b \in BOOLEAN}

\* key=value pairs a query string is made of
ParamChoices ==
    {<<<<"dept">>, <<"2", ",", "1">>>>,
     <<<<"dept">>, <<"1", ",">>>>,
     <<<<"created", "gte">>, <<"2", "0", "2", "0">>>>,
     <<<<"created", "lte">>, <<"2", "0", "2", "1">>>>,
     <<<<"q">>, <<"7">>>>,
     <<<<"e">>, <<"1">>>>}

QueryStrings == SeqsUpTo(ParamChoices, MaxParams)

\* record sets a filter is asked to narrow
QuerySets ==
    {<<>>, <<[method |-> "filter", key |-> <<"active">>, value |-> <<"1">>]>>}

\* omitted_fields arguments
OmittedChoices == {<<>>, <<<<"q">>, <<"created", "gte">>>>}

\* trees in the shape _tree_to_json reads: a node is a model instance or a
\* pair (label, children)
Labels == {"Group"}
Widths == {0, 1, 2}
SeqsOf(nodes, lens) == UNION {[1..k -> nodes] : k \in lens}

RECURSIVE LabelNodes(_)
LabelNodes(d) ==
    {Obj(pk) : pk \in Pks}
    \cup (IF d = 0 THEN {}
          ELSE {Tuple(<<Str(l), Tuple(c)>>) :
                    l \in Labels, c \in SeqsOf(LabelNodes(d - 1), Widths)})

\* trees in the shape the get_tree docstring shows: a node is a model
\* instance or a tuple of nodes
RECURSIVE DocNodes(_)
DocNodes(d) ==
    {Obj(pk) : pk \in Pks}
    \cup (IF d = 0 THEN {}
          ELSE {Tuple(c) : c \in SeqsOf(DocNodes(d - 1), Widths)})

\* roots: one deep node at most, or two shallower ones
Roots(nodes(_)) ==
    {Tuple(c) : c \in SeqsOf(nodes(MaxDepth), {0, 1})
                      \cup SeqsOf(nodes(MaxDepth - 1), {2})}

LabelTrees == Roots(LabelNodes)
DocTrees == Roots(DocNodes)

\* what a TreeFilter subclass's get_tree() returns in the request cycle
SampleTrees ==
    {Tuple(<<Obj(1), Tuple(<<Str("Group"), Tuple(<<Obj(2)>>)>>)>>),
     Tuple(<<Obj(1), Tuple(<<Obj(2), Obj(1)>>)>>)}

\* query strings selecting tree nodes
SelectionQueryStrings ==
    {<<>>,
     <<<<<<"dept">>, <<"1">>>>>>,
     <<<<<<"dept">>, <<"3">>>>>>,
     <<<<<<"dept">>, <<"2", ",", "1">>>>>>}

-----------------------------------------------------------------------------
(* The request cycle                                                       *)

NoTree == Tuple(<<>>)
NoOut == Return("", <<>>)

Init ==
    /\ adminDeclared \in AdminMediaChoices
    /\ adminMedia = adminDeclared
    /\ settings \in SettingsChoices
    /\ phase = "idle"
    /\ GET = <<>>
    /\ filter = NoFilter
    /\ tree = NoTree
    /\ out = NoOut

\* a request arrives
NewRequest ==
    /\ phase = "idle"
    /\ \E q \in QueryStrings : GET' = q
    /\ phase' = "request"
    /\ UNCHANGED <<adminDeclared, adminMedia, settings, filter, tree, out>>

\* the change list constructs a filter of the admin's list_filter; an
\* exception of the constructor ends the request
Construct ==
    /\ phase = "request"
    /\ \E class \in FilterClasses :
        LET base == FiltrateInit(class, LookupParams(GET))
            made == IF class.cls = "TreeFilter" THEN TreeInit(base)
                    ELSE [ok |-> TRUE, self |-> base]
        IN /\ adminMedia' = _add_media(adminMedia, class.cls, settings)
           /\ IF made.ok
              THEN /\ filter' = made.self
                   /\ phase' = "filter"
                   /\ out' = Return("__init__", <<>>)
              ELSE /\ filter' = NoFilter
                   /\ phase' = "failed"
                   /\ out' = Raise("__init__", "ValueError")
    /\ tree' = NoTree
    /\ UNCHANGED <<adminDeclared, settings, GET>>

Queryset ==
    /\ phase = "filter"
    /\ \E qs \in QuerySets : out' = WithArg(queryset(filter, qs), qs)
    /\ UNCHANGED <<adminDeclared, adminMedia, settings, phase, GET, filter, tree>>

FormDuplicateGetparams ==
    /\ phase = "filter"
    /\ \E omitted_fields \in OmittedChoices :
        out' = WithArg(Return("_form_duplicate_getparams",
                              _form_duplicate_getparams(GET, omitted_fields)),
                       omitted_fields)
    /\ UNCHANGED <<adminDeclared, adminMedia, settings, phase, GET, filter, tree>>

GetTitle ==
    /\ phase = "filter"
    /\ out' = get_title(filter, <<GET>>)
    /\ UNCHANGED <<adminDeclared, adminMedia, settings, phase, GET, filter, tree>>

GetContent ==
    /\ phase = "filter"
    /\ \E t \in IF filter.cls = "TreeFilter" THEN SampleTrees ELSE {NoTree} :
        /\ tree' = t
        /\ out' = get_content(filter, GET, t, settings)
    /\ UNCHANGED <<adminDeclared, adminMedia, settings, phase, GET, filter>>

Choices ==
    /\ phase = "filter"
    /\ out' = choices(filter, GET, tree, settings)
    /\ UNCHANGED <<adminDeclared, adminMedia, settings, phase, GET, filter, tree>>

\* the response (or the error page) is sent; the request and its filter are
\* discarded
EndRequest ==
    /\ phase \in {"request", "filter", "failed"}
    /\ phase' = "idle"
    /\ GET' = <<>>
    /\ filter' = NoFilter
    /\ tree' = NoTree
    /\ out' = NoOut
    /\ UNCHANGED <<adminDeclared, adminMedia, settings>>

Next ==
    \/ NewRequest
    \/ Construct
    \/ Queryset
    \/ FormDuplicateGetparams
    \/ GetTitle
    \/ GetContent
    \/ Choices
    \/ EndRequest

Spec == Init /\ [][Next]_vars

-----------------------------------------------------------------------------
(* Tree serialization on its own: a TreeFilter constructed for a request,   *)
(* and _tree_to_json applied to the tree its get_tree() returns.            *)

TreeClass == FilterClass("TreeFilter", "Department", <<"dept">>, INCLUDE, None)

InitTree ==
    /\ adminDeclared \in AdminMediaChoices
    /\ adminMedia = _add_media(adminDeclared, "TreeFilter", settings)
    /\ settings \in {s \in SettingsChoices : s.include_jquery}
    /\ phase = "filter"
    /\ GET \in SelectionQueryStrings
    /\ filter = TreeInit(FiltrateInit(TreeClass, LookupParams(GET))).self
    /\ tree \in LabelTrees \cup DocTrees
    /\ out = Return("__init__", <<>>)

TreeToJson ==
    /\ phase = "filter"
    /\ out.op = "__init__"
    /\ out' = _tree_to_json(tree, filter.selected_nodes)
    /\ UNCHANGED <<adminDeclared, adminMedia, settings, phase, GET, filter, tree>>

NextTree == TreeToJson

SpecTree == InitTree /\ [][NextTree]_vars

-----------------------------------------------------------------------------
(* Reading trees and their serialized form                                 *)

\* the lookup Django's filter()/exclude() applies for a keyword: the last
\* part when it names a lookup, "exact" otherwise
LookupNames == {"in", "exact", "gte", "lte", "gt", "lt", "isnull"}
LookupOf(key) ==
    IF Len(key) > 1 /\ Last(key) \in LookupNames THEN Last(key) ELSE "exact"

RECURSIVE IsLabelNode(_)
IsLabelNode(node) ==
    \/ node.kind = "obj"
    \/ /\ node.kind = "tuple"
       /\ Len(node.items) = 2
       /\ node.items[1].kind = "str"
       /\ node.items[2].kind = "tuple"
       /\ \A i \in 1..Len(node.items[2].items) : IsLabelNode(node.items[2].items[i])
IsLabelTree(t) ==
    t.kind = "tuple" /\ \A i \in 1..Len(t.items) : IsLabelNode(t.items[i])

RECURSIVE IsDocNode(_)
IsDocNode(node) ==
    \/ node.kind = "obj"
    \/ /\ node.kind = "tuple"
       /\ \A i \in 1..Len(node.items) : IsDocNode(node.items[i])
IsDocTree(t) ==
    t.kind = "tuple" /\ \A i \in 1..Len(t.items) : IsDocNode(t.items[i])

\* the primary keys of the leaves of a (label, children) tree, depth first
RECURSIVE LeafPks(_)
LeafPks(nodes) ==
    Concat([i \in 1..Len(nodes) |->
                IF nodes[i].kind = "obj" THEN <<nodes[i].pk>>
                ELSE LeafPks(nodes[i].items[2].items)])

\* the primary keys of all model instances of a docstring tree, depth first
RECURSIVE DocPks(_)
DocPks(nodes) ==
    Concat([i \in 1..Len(nodes) |->
                IF nodes[i].kind = "obj" THEN <<nodes[i].pk>>
                ELSE DocPks(nodes[i].items)])

\* nesting and sibling order of a (label, children) tree
RECURSIVE TreeSkeleton(_)
TreeSkeleton(nodes) ==
    [i \in 1..Len(nodes) |->
        IF nodes[i].kind = "obj"
        THEN [leaf |-> TRUE, data |-> nodes[i].s, kids |-> <<>>]
        ELSE [leaf |-> FALSE, data |-> nodes[i].items[1].s,
              kids |-> TreeSkeleton(nodes[i].items[2].items)]]

\* nesting and sibling order of the parsed JSON
RECURSIVE JsonSkeleton(_)
JsonSkeleton(entries) ==
    [i \in 1..Len(entries) |->
        IF "children" \in DOMAIN entries[i]
        THEN [leaf |-> FALSE, data |-> entries[i]["data"],
              kids |-> JsonSkeleton(entries[i]["children"])]
        ELSE [leaf |-> TRUE, data |-> entries[i]["data"], kids |-> <<>>]]

\* the leaf entries of the parsed JSON, at every depth, depth first
RECURSIVE LeafEntries(_)
LeafEntries(entries) ==
    Concat([i \in 1..Len(entries) |->
                IF "children" \in DOMAIN entries[i]
                THEN LeafEntries(entries[i]["children"])
                ELSE <<entries[i]>>])

ObjIds(leaves) == [i \in 1..Len(leaves) |-> leaves[i]["attr"]["obj_id"]]

Serialized == out.op = "_tree_to_json"

DeepTree ==
    Tuple(<<Tuple(<<Str("Group"),
                    Tuple(<<Obj(1),
                            Tuple(<<Str("Group"),
                                    Tuple(<<Obj(2), Obj(1)>>)>>)>>)>>)>>)

-----------------------------------------------------------------------------
(* Claims                                                                  *)

TreeQuerysetDone ==
    phase = "filter" /\ filter.cls = "TreeFilter" /\ out.op = "queryset"

\* the field C1 names: query_name when set, parameter_name otherwise
ClaimedField ==
    IF filter.query_name = None THEN filter.parameter_name ELSE filter.query_name

\* C1 as stated: TreeFilter.queryset returns the input unchanged for an empty
\* selection and otherwise restricts it by the membership predicate "field in
\* selected identifiers" (INCLUDE) or its negation (EXCLUDE).
C1_MembershipPredicate ==
    (TreeQuerysetDone /\ filter.query_mode \in {INCLUDE, EXCLUDE}) =>
        /\ out.err = ""
        /\ IF filter.selected_nodes = <<>> THEN out.val = out.arg
           ELSE /\ Len(out.val) = Len(out.arg) + 1
                /\ SubSeq(out.val, 1, Len(out.arg)) = out.arg
                /\ Last(out.val).method =
                      (IF filter.query_mode = INCLUDE THEN "filter" ELSE "exclude")
                /\ Last(out.val).key \in {ClaimedField, Append(ClaimedField, "in")}
                /\ LookupOf(Last(out.val).key) = "in"
                /\ Last(out.val).value = filter.selected_nodes

\* C1 amended: TreeFilter.queryset returns the input unchanged for an empty
\* selection and otherwise the input with one more call, filter() in INCLUDE
\* mode and exclude() in EXCLUDE mode, whose single keyword is the field name
\* verbatim (query_name when set, parameter_name otherwise) and whose value is
\* the list of selected identifiers; the lookup is the one the name spells.
C1_KeywordVerbatim ==
    (TreeQuerysetDone /\ filter.query_mode \in {INCLUDE, EXCLUDE}) =>
        /\ out.err = ""
        /\ IF filter.selected_nodes = <<>> THEN out.val = out.arg
           ELSE out.val =
                  Append(out.arg,
                      [method |-> IF filter.query_mode = INCLUDE
                                  THEN "filter" ELSE "exclude",
                       key |-> ClaimedField,
                       value |-> filter.selected_nodes])

C1_Witness ==
    /\ TreeQuerysetDone
    /\ filter.query_mode = EXCLUDE
    /\ filter.query_name # None
    /\ filter.selected_nodes = <<2, 1>>
    /\ out.arg # <<>>
    /\ out.err = ""
    /\ Last(out.val).method = "exclude"

\* C2 as stated: with a query_mode that is neither INCLUDE nor EXCLUDE every
\* call of TreeFilter.queryset fails, whatever the selection.
C2_UnknownModeAlwaysFails ==
    (TreeQuerysetDone /\ filter.query_mode \notin {INCLUDE, EXCLUDE}) =>
        out.err # ""

\* C2 amended: with a query_mode that is neither INCLUDE nor EXCLUDE a call of
\* TreeFilter.queryset fails with the configuration error and returns no
\* record set when the selection is not empty, and returns the input record
\* set unchanged when the selection is empty.
C2_UnknownModeFailsWhenSelected ==
    (TreeQuerysetDone /\ filter.query_mode \notin {INCLUDE, EXCLUDE}) =>
        IF filter.selected_nodes = <<>>
        THEN out.err = "" /\ out.val = out.arg
        ELSE out.err = "Exception: Unknown query_mode given." /\ out.val = <<>>

C2_Witness ==
    /\ TreeQuerysetDone
    /\ filter.query_mode = 3
    /\ filter.selected_nodes = <<2, 1>>
    /\ out.err = "Exception: Unknown query_mode given."

\* the bound predicate C3 expects for the parameter parameter_name + suffix
BoundPredicate(suffix) ==
    LET name == Append(filter.parameter_name, suffix) IN
    IF name \in Range(Keys(GET))
    THEN <<[method |-> "filter", key |-> name, value |-> GetItem(GET, name)]>>
    ELSE <<>>

\* C3: the record set a DateRangeFilter's queryset returns carries the lower
\* bound when the 'from' parameter is set, the upper bound when the 'to'
\* parameter is set, both when both are, and is the input when neither is.
C3_DateRangeBounds ==
    (phase = "filter" /\ filter.cls = "DateRangeFilter" /\ out.op = "queryset") =>
        /\ out.err = ""
        /\ out.val = out.arg \o BoundPredicate("gte") \o BoundPredicate("lte")

\* C4: in the output of _tree_to_json a leaf's is_selected is true exactly
\* when its pk is in selected_nodes, and the leaves carry, in order, the pks
\* of the tree's leaves as obj_id.
C4_LeafSelected ==
    (Serialized /\ out.err = "") =>
        LET leaves == LeafEntries(json_loads(out.val)) IN
        /\ \A i \in 1..Len(leaves) :
              leaves[i]["attr"]["is_selected"] =
                  (leaves[i]["attr"]["obj_id"] \in Range(filter.selected_nodes))
        /\ IsLabelTree(tree) => ObjIds(leaves) = LeafPks(tree.items)

C4_Witness ==
    /\ Serialized
    /\ out.err = ""
    /\ tree = DeepTree
    /\ filter.selected_nodes = <<1>>
    /\ LET leaves == LeafEntries(json_loads(out.val)) IN
       /\ Len(leaves) = 3
       /\ leaves[1]["attr"]["is_selected"]
       /\ ~leaves[2]["attr"]["is_selected"]

\* C5: for a tree of leaves and (label, children) pairs _tree_to_json
\* completes, and re-parsing its JSON gives one entry per node, with the
\* nesting and the sibling order of the input, a pair as an entry with its
\* label and a children list, a leaf as an entry without children.
C5_StructurePreserved ==
    (Serialized /\ IsLabelTree(tree)) =>
        /\ out.err = ""
        /\ JsonSkeleton(json_loads(out.val)) = TreeSkeleton(tree.items)

C5_Witness ==
    /\ Serialized
    /\ tree = DeepTree
    /\ out.err = ""
    /\ Len(json_loads(out.val)) = 1
    /\ Len(json_loads(out.val)[1]["children"][2]["children"]) = 2

\* C6: the hidden fields _form_duplicate_getparams emits are exactly the
\* query parameters whose name is neither omitted nor the pagination key 'e',
\* one field per parameter, with the parameter's name and value.
C6_AllOtherParamsEchoed ==
    (out.op = "_form_duplicate_getparams") =>
        LET dropped == Range(out.arg) \cup {<<"e">>}
            remaining == {GET[i] : i \in {j \in 1..Len(GET) : GET[j][1] \notin dropped}}
        IN /\ {<<f.name, f.value>> : f \in Range(out.val)} = remaining
           /\ Len(out.val) = Cardinality(remaining)

\* C7: for a filter whose class implements get_content, choices returns one
\* choice, with the filter's title and the content, and does not fail.
C7_OneChoice ==
    (phase = "filter" /\ out.op = "choices"
        /\ filter.cls \in {"DateRangeFilter", "TreeFilter"}) =>
        /\ out.err = ""
        /\ Len(out.val) = 1
        /\ out.val[1].title = filter.title

\* C8: after a filter is constructed the admin's asset list is, for each media
\* type, the assets the admin declares, then the base filter's, then the
\* filter's own, each once.
C8_AssetsOfThreeSites ==
    (out.op = "__init__" /\ out.err = "") =>
        /\ adminMedia.js = OrderedSet(adminDeclared.js \o BaseMedia.js
                                      \o OwnMedia(filter.cls, settings).js)
        /\ adminMedia.css = OrderedSet(adminDeclared.css \o BaseMedia.css
                                       \o OwnMedia(filter.cls, settings).css)

\* C9: constructing and using a filter changes no state that outlives the
\* request; in particular the admin's assets stay as they were.
C9_NoStateOutlivesRequest == [][adminMedia' = adminMedia]_vars

\* C10: for a tree in the shape the get_tree docstring shows _tree_to_json
\* completes and emits every model instance of the tree as a leaf entry with
\* its pk.
C10_DocstringTree ==
    (Serialized /\ IsDocTree(tree)) =>
        /\ out.err = ""
        /\ ObjIds(LeafEntries(json_loads(out.val))) = DocPks(tree.items)

====
